---- MODULE Spec2Model ----
(***************************************************************************)
(* Model of the AR session core of src/src/lib.rs: the process-wide        *)
(* AR_SESSION holder and the C-callable entry points that read or mutate   *)
(* it.  Rust Strings are sequences of Unicode scalar values, C strings are *)
(* sequences of bytes, f32 arguments are drawn from small sets of numbers. *)
(***************************************************************************)
EXTENDS Integers, Sequences, FiniteSets, TLC

\* ------------------------------------------------------------------ bounds
MaxPlanes == 2
MaxObjects == 3
NumThreads == 2

\* ------------------------------------------------------------------ inputs
\* f32 triples passed as camera positions (main passes 1.0, 2.0, 3.0).
CameraInputs == { <<0, 0, 0>>, <<1, 2, 3>> }

\* Plane geometry passed by the host: centre, extent, normal (as in main).
PlaneCenters == { <<0, 0, -1>> }
PlaneExtents == { <<1, 1>> }
PlaneNormals == { <<0, 1, 0>> }

\* Object position and rotation passed by the host (as in main).
ObjectPositions == { <<0, 5, -1>> }
ObjectRotations == { <<0, 0, 0, 1>> }

\* i32 type selectors the host passes: Cube, as in main.
TypeSelectors == { 0 }

\* A *const c_char: the null pointer, or a pointer to the bytes before the NUL.
NullPtr == [null |-> TRUE, bytes |-> <<>>]
CStr(bytes) == [null |-> FALSE, bytes |-> bytes]

\* C strings the host passes as plane ids: absent, empty, the ASCII string
\* "a", and the single byte 0xFF, which is not valid UTF-8.
IdPtrs == { NullPtr, CStr(<<>>), CStr(<<97>>), CStr(<<255>>) }

\* Handles the host passes to remove_virtual_object: negative, in range,
\* equal to the count, beyond the count (for smaller counts).
Handles == -1 .. MaxObjects

\* A *mut i32 out-parameter: null, or a pointer to a slot holding val.
NullSlot == [null |-> TRUE, val |-> 0]
Slot(v) == [null |-> FALSE, val |-> v]
OutSlots == { NullSlot, Slot(-1) }

\* ----------------------------------------------------------------- strings
\* char::REPLACEMENT_CHARACTER, U+FFFD, which to_string_lossy substitutes.
REPLACEMENT_CHARACTER == 65533

\* CStr::to_string_lossy: ASCII bytes decode to themselves; a byte that
\* cannot start a UTF-8 sequence (0xF8..0xFF, of which IdPtrs uses 0xFF) is
\* replaced by U+FFFD.  Lead bytes of multi-byte sequences are not among the
\* modelled inputs.
RECURSIVE to_string_lossy(_)
to_string_lossy(bytes) ==
    IF bytes = <<>> THEN <<>>
    ELSE (IF Head(bytes) < 128 THEN <<Head(bytes)>> ELSE <<REPLACEMENT_CHARACTER>>)
         \o to_string_lossy(Tail(bytes))

\* String::as_bytes: the UTF-8 encoding of a String over ASCII and U+FFFD
\* (U+FFFD encodes as EF BF BD).
RECURSIVE as_bytes(_)
as_bytes(s) ==
    IF s = <<>> THEN <<>>
    ELSE (IF Head(s) < 128 THEN <<Head(s)>> ELSE <<239, 191, 189>>)
         \o as_bytes(Tail(s))

\* Display for an unsigned integer: its decimal digits, as characters.
RECURSIVE fmt_usize(_)
fmt_usize(n) ==
    IF n < 10 THEN <<48 + n>>
    ELSE fmt_usize(n \div 10) \o <<48 + (n % 10)>>

\* Display for i32: a minus sign before the digits of a negative number.
fmt_i32(n) == IF n < 0 THEN <<45>> \o fmt_usize(-n) ELSE fmt_usize(n)

\* format!("plane_{}", n)
plane_id(n) == <<112, 108, 97, 110, 101, 95>> \o fmt_usize(n)

\* format!("object_{}", n)
object_id_string(n) == <<111, 98, 106, 101, 99, 116, 95>> \o fmt_usize(n)

\* format!("custom_{}", object_type)
custom_tag(object_type) == <<99, 117, 115, 116, 111, 109, 95>> \o fmt_i32(object_type)

\* ------------------------------------------------------------------- state
VARIABLES
    AR_SESSION,     \* static mut AR_SESSION: Option<Arc<Mutex<ARSession>>>
    lastCall,       \* the boundary call that ran last: op, args, ret, and the
                    \* session's presence and counts when it was made
    lastHandle,     \* handle returned by the latest place_virtual_object of this session
    removedSince,   \* an object was removed since that handle was returned
    smokeStep,      \* how many calls of SmokeScript the process has made, when
                    \* these are all the calls it has made so far; else -1
    pc,             \* per host thread: "call" (invoked), "cs" (holds the
                    \* MutexGuard), "done" (returned)
    call,           \* per host thread: the entry point it calls, op and args
    result,         \* per host thread: what its call returned
    guard,          \* per host thread: the mutex its MutexGuard borrows
    crashed,        \* the process was killed (abort, SIGSEGV)
    start,          \* AR_SESSION when the threads made their calls
    existed         \* per get_session_stats call in progress: the counts of
                    \* the sessions AR_SESSION has held since the call was made

\* The host's record of its one-at-a-time calls, and its threads.
svars == <<lastCall, lastHandle, removedSince, smokeStep>>
tvars == <<pc, call, result, guard, crashed, start, existed>>
vars == <<AR_SESSION, lastCall, lastHandle, removedSince, smokeStep,
          pc, call, result, guard, crashed, start, existed>>

\* Option::None
None == [some |-> FALSE]

\* Some(Arc::new(Mutex::new(session))): a fresh mutex is not poisoned, and no
\* entry point of Spec panics while it holds the lock.
Some(session) == [some |-> TRUE, poisoned |-> FALSE, data |-> session]

\* The lock taken from a poisoned mutex as well (lock().unwrap_or_else(
\* PoisonError::into_inner)).
Locked_despite_poison(A) == A.some

\* if let Some(session) = &AR_SESSION { if let Ok(lock) = session.lock() { .. } }
Locked(A) == A.some /\ ~A.poisoned

\* No handle has been returned in this session yet.
NoHandle == -1

\* ---------------------------------------------------------------- handlers
\* ARObjectType from the i32 selector (the match in place_virtual_object).
ARObjectType(object_type) ==
    CASE object_type = 0 -> [kind |-> "Cube"]
      [] object_type = 1 -> [kind |-> "Sphere"]
      [] OTHER -> [kind |-> "Custom", tag |-> custom_tag(object_type)]

\* initialize_ar_session keeping a session that is already installed.
initialize_ar_session_once ==
    IF AR_SESSION.some
    THEN AR_SESSION
    ELSE Some([initialized |-> TRUE,
               camera_position |-> <<0, 0, 0>>,
               detected_planes |-> <<>>,
               virtual_objects |-> <<>>])

\* initialize_ar_session: a new ARSession, installed over whatever was there.
initialize_ar_session ==
    Some([initialized |-> TRUE,
          camera_position |-> <<0, 0, 0>>,
          detected_planes |-> <<>>,
          virtual_objects |-> <<>>])

\* update_camera_position storing y and z in each other's place.
update_camera_position_swapped(A, x, y, z) ==
    IF Locked(A)
    THEN [A EXCEPT !.data.camera_position = <<x, z, y>>]
    ELSE A

\* update_camera_position creating the session when there is none.
update_camera_position_lazy(A, x, y, z) ==
    IF Locked(A)
    THEN [A EXCEPT !.data.camera_position = <<x, y, z>>]
    ELSE [initialize_ar_session EXCEPT !.data.camera_position = <<x, y, z>>]

\* update_camera_position(x, y, z): the value of AR_SESSION after the call.
update_camera_position(A, x, y, z) ==
    IF Locked(A)
    THEN [A EXCEPT !.data.camera_position = <<x, y, z>>]
    ELSE A

\* plane_id_for synthesizing from the count after the push.
plane_id_for_after_push(id_ptr, detected_planes) ==
    IF ~id_ptr.null
    THEN to_string_lossy(id_ptr.bytes)
    ELSE plane_id(Len(detected_planes) + 1)

\* The id add_detected_plane gives the plane: the decoded C string when the
\* pointer is not null, else plane_<number of planes>.
plane_id_for(id_ptr, detected_planes) ==
    IF ~id_ptr.null
    THEN to_string_lossy(id_ptr.bytes)
    ELSE plane_id(Len(detected_planes))

\* add_detected_plane inserting the plane at the front of detected_planes.
add_detected_plane_front(A, id_ptr, center, extent, normal) ==
    IF Locked(A)
    THEN LET plane == [id |-> plane_id_for(id_ptr, A.data.detected_planes),
                       center |-> center,
                       extent |-> extent,
                       normal |-> normal]
         IN [A EXCEPT !.data.detected_planes = <<plane>> \o @]
    ELSE A

\* add_detected_plane(id_ptr, center, extent, normal): AR_SESSION after the call.
add_detected_plane(A, id_ptr, center, extent, normal) ==
    IF Locked(A)
    THEN LET plane == [id |-> plane_id_for(id_ptr, A.data.detected_planes),
                       center |-> center,
                       extent |-> extent,
                       normal |-> normal]
         IN [A EXCEPT !.data.detected_planes = Append(@, plane)]
    ELSE A

\* place_virtual_object also storing the position as the camera position.
place_virtual_object_moves_camera(A, object_type, position, rotation) ==
    IF Locked(A)
    THEN LET object == [id |-> object_id_string(Len(A.data.virtual_objects)),
                        position |-> position,
                        rotation |-> rotation,
                        object_type |-> ARObjectType(object_type)]
         IN [session |-> [A EXCEPT !.data.virtual_objects = Append(@, object),
                                   !.data.camera_position = position],
             ret |-> Len(A.data.virtual_objects)]
    ELSE [session |-> A, ret |-> NoHandle]

\* place_virtual_object creating the session when there is none.
place_virtual_object_lazy(A, object_type, position, rotation) ==
    LET B == IF Locked(A) THEN A ELSE initialize_ar_session
        object == [id |-> object_id_string(Len(B.data.virtual_objects)),
                   position |-> position,
                   rotation |-> rotation,
                   object_type |-> ARObjectType(object_type)]
    IN [session |-> [B EXCEPT !.data.virtual_objects = Append(@, object)],
        ret |-> Len(B.data.virtual_objects)]

\* place_virtual_object returning the length after the push.
place_virtual_object_len_after(A, object_type, position, rotation) ==
    IF Locked(A)
    THEN LET object == [id |-> object_id_string(Len(A.data.virtual_objects)),
                        position |-> position,
                        rotation |-> rotation,
                        object_type |-> ARObjectType(object_type)]
         IN [session |-> [A EXCEPT !.data.virtual_objects = Append(@, object)],
             ret |-> Len(A.data.virtual_objects) + 1]
    ELSE [session |-> A, ret |-> NoHandle]

\* place_virtual_object(object_type, pos, rot): AR_SESSION after the call and
\* the i32 returned.
place_virtual_object(A, object_type, position, rotation) ==
    IF Locked(A)
    THEN LET object == [id |-> object_id_string(Len(A.data.virtual_objects)),
                        position |-> position,
                        rotation |-> rotation,
                        object_type |-> ARObjectType(object_type)]
             object_id == Len(A.data.virtual_objects)
         IN [session |-> [A EXCEPT !.data.virtual_objects = Append(@, object)],
             ret |-> object_id]
    ELSE [session |-> A, ret |-> NoHandle]

\* Vec::swap_remove(index): the last element takes the place of the removed one.
VecSwapRemove(v, index) ==
    [i \in 1 .. (Len(v) - 1) |-> IF i = index + 1 THEN v[Len(v)] ELSE v[i]]

\* Vec::remove(index): the elements after index shift down by one.
VecRemove(v, index) ==
    [i \in 1 .. (Len(v) - 1) |-> IF i <= index THEN v[i] ELSE v[i + 1]]

\* remove_virtual_object with `return true` placed after the range test
\* instead of inside it.
remove_virtual_object_true_outside(A, object_id) ==
    IF Locked(A)
    THEN [session |-> IF object_id >= 0 /\ object_id < Len(A.data.virtual_objects)
                      THEN [A EXCEPT !.data.virtual_objects = VecRemove(@, object_id)]
                      ELSE A,
          ret |-> TRUE]
    ELSE [session |-> A, ret |-> FALSE]

\* remove_virtual_object(object_id): AR_SESSION after the call and the bool
\* returned.  Vec indices are 0-based, sequence indices 1-based.
remove_virtual_object(A, object_id) ==
    IF Locked(A) /\ object_id >= 0 /\ object_id < Len(A.data.virtual_objects)
    THEN [session |-> [A EXCEPT !.data.virtual_objects = VecRemove(@, object_id)],
          ret |-> TRUE]
    ELSE [session |-> A, ret |-> FALSE]

\* get_session_stats writing each count to the other slot.
get_session_stats_swapped(A, num_planes, num_objects) ==
    IF Locked(A)
    THEN [num_planes |-> IF ~num_planes.null
                         THEN Slot(Len(A.data.virtual_objects))
                         ELSE num_planes,
          num_objects |-> IF ~num_objects.null
                          THEN Slot(Len(A.data.detected_planes))
                          ELSE num_objects]
    ELSE [num_planes |-> num_planes, num_objects |-> num_objects]

\* get_session_stats reporting zero counts when there is no session.
get_session_stats_zeroed(A, num_planes, num_objects) ==
    [num_planes |-> IF ~num_planes.null
                    THEN Slot(Len(IF Locked(A) THEN A.data.detected_planes ELSE <<>>))
                    ELSE num_planes,
     num_objects |-> IF ~num_objects.null
                     THEN Slot(Len(IF Locked(A) THEN A.data.virtual_objects ELSE <<>>))
                     ELSE num_objects]

\* get_session_stats(num_planes, num_objects): the two pointees after the
\* call; a null pointer has no pointee and stays as it is.
get_session_stats(A, num_planes, num_objects) ==
    IF Locked(A)
    THEN [num_planes |-> IF ~num_planes.null
                         THEN Slot(Len(A.data.detected_planes))
                         ELSE num_planes,
          num_objects |-> IF ~num_objects.null
                          THEN Slot(Len(A.data.virtual_objects))
                          ELSE num_objects]
    ELSE [num_planes |-> num_planes, num_objects |-> num_objects]

\* ----------------------------------------------------------------- actions
\* Room left under the model's bounds for one more plane / object.
PlaneRoom ==
    IF AR_SESSION.some THEN Len(AR_SESSION.data.detected_planes) < MaxPlanes ELSE TRUE
ObjectRoom ==
    IF AR_SESSION.some THEN Len(AR_SESSION.data.virtual_objects) < MaxObjects ELSE TRUE

\* Planes and objects of the session A holds (none when there is no session).
Planes(A) == IF A.some THEN A.data.detected_planes ELSE <<>>
Objects(A) == IF A.some THEN A.data.virtual_objects ELSE <<>>

\* A call without arguments, or without a result.
Unit == [unit |-> TRUE]

\* The record of a boundary call made in the current state; args and ret are
\* records whose fields name the arguments and the result.
Call(op, args, ret) ==
    [op |-> op, args |-> args, ret |-> ret,
     before |-> [some |-> AR_SESSION.some,
                 planes |-> Len(Planes(AR_SESSION)),
                 objects |-> Len(Objects(AR_SESSION))]]

\* The calls of main, in order, without its update_camera_position and with
\* get_session_stats once more at the end (0.5 is written 5).
SmokeScript ==
    << [op |-> "initialize_ar_session", args |-> Unit],
       [op |-> "add_detected_plane",
        args |-> [id_ptr |-> NullPtr, center |-> <<0, 0, -1>>,
                  extent |-> <<1, 1>>, normal |-> <<0, 1, 0>>]],
       [op |-> "place_virtual_object",
        args |-> [object_type |-> 0, position |-> <<0, 5, -1>>,
                  rotation |-> <<0, 0, 0, 1>>]],
       [op |-> "get_session_stats",
        args |-> [num_planes |-> Slot(-1), num_objects |-> Slot(-1)]],
       [op |-> "remove_virtual_object", args |-> [object_id |-> 0]],
       [op |-> "get_session_stats",
        args |-> [num_planes |-> Slot(-1), num_objects |-> Slot(-1)]] >>

\* smokeStep after the call op(args).
SmokeAdvance(op, args) ==
    IF smokeStep >= 0 /\ smokeStep < Len(SmokeScript)
    THEN IF SmokeScript[smokeStep + 1].op = op
         THEN IF SmokeScript[smokeStep + 1].args = args THEN smokeStep + 1 ELSE -1
         ELSE -1
    ELSE -1

\* The host threads, and a thread that holds no MutexGuard.
Threads == 1 .. NumThreads
NoGuard == [kind |-> "none"]

\* No call has been made.
NoCall == [op |-> "none", args |-> Unit, ret |-> Unit,
           before |-> [some |-> FALSE, planes |-> 0, objects |-> 0]]

\* The host calls from one thread: none of its other threads is in a call.
Init ==
    /\ smokeStep = 0
    /\ AR_SESSION = None
    /\ lastCall = NoCall
    /\ lastHandle = NoHandle
    /\ removedSince = FALSE
    /\ pc = [t \in Threads |-> "done"]
    /\ call = [t \in Threads |-> [op |-> "none", args |-> Unit]]
    /\ result = [t \in Threads |-> Unit]
    /\ guard = [t \in Threads |-> NoGuard]
    /\ crashed = FALSE
    /\ start = None
    /\ existed = [t \in Threads |-> {}]

\* ios_main / main: initialize_ar_session().
InitializeSession ==
    /\ AR_SESSION' = initialize_ar_session
    /\ lastCall' = Call("initialize_ar_session", Unit, Unit)
    /\ smokeStep' = SmokeAdvance("initialize_ar_session", Unit)
    /\ lastHandle' = NoHandle
    /\ removedSince' = FALSE
    /\ UNCHANGED tvars

UpdateCameraPosition ==
    \E p \in CameraInputs :
        /\ AR_SESSION' = update_camera_position(AR_SESSION, p[1], p[2], p[3])
        /\ lastCall' = Call("update_camera_position", [x |-> p[1], y |-> p[2], z |-> p[3]], Unit)
        /\ smokeStep' = SmokeAdvance("update_camera_position", [x |-> p[1], y |-> p[2], z |-> p[3]])
        /\ UNCHANGED <<lastHandle, removedSince>>
        /\ UNCHANGED tvars

AddDetectedPlane ==
    \E id_ptr \in IdPtrs, c \in PlaneCenters, e \in PlaneExtents, n \in PlaneNormals :
        /\ PlaneRoom
        /\ AR_SESSION' = add_detected_plane(AR_SESSION, id_ptr, c, e, n)
        /\ lastCall' = Call("add_detected_plane",
                             [id_ptr |-> id_ptr, center |-> c,
                              extent |-> e, normal |-> n],
                             Unit)
        /\ smokeStep' = SmokeAdvance("add_detected_plane", [id_ptr |-> id_ptr, center |-> c, extent |-> e, normal |-> n])
        /\ UNCHANGED <<lastHandle, removedSince>>
        /\ UNCHANGED tvars

PlaceVirtualObject ==
    \E t \in TypeSelectors, p \in ObjectPositions, r \in ObjectRotations :
        LET res == place_virtual_object(AR_SESSION, t, p, r) IN
        /\ ObjectRoom
        /\ AR_SESSION' = res.session
        /\ lastCall' = Call("place_virtual_object",
                             [object_type |-> t, position |-> p, rotation |-> r],
                             [handle |-> res.ret])
        /\ smokeStep' = SmokeAdvance("place_virtual_object", [object_type |-> t, position |-> p, rotation |-> r])
        /\ lastHandle' = res.ret
        /\ removedSince' = FALSE
        /\ UNCHANGED tvars

RemoveVirtualObject ==
    \E h \in Handles :
        LET res == remove_virtual_object(AR_SESSION, h) IN
        /\ AR_SESSION' = res.session
        /\ lastCall' = Call("remove_virtual_object", [object_id |-> h], [removed |-> res.ret])
        /\ smokeStep' = SmokeAdvance("remove_virtual_object", [object_id |-> h])
        /\ removedSince' = (removedSince \/ res.ret)
        /\ UNCHANGED lastHandle
        /\ UNCHANGED tvars

GetSessionStats ==
    \E np \in OutSlots, no \in OutSlots :
        /\ lastCall' = Call("get_session_stats",
                             [num_planes |-> np, num_objects |-> no],
                             get_session_stats(AR_SESSION, np, no))
        /\ smokeStep' = SmokeAdvance("get_session_stats", [num_planes |-> np, num_objects |-> no])
        /\ UNCHANGED <<AR_SESSION, lastHandle, removedSince>>
        /\ UNCHANGED tvars

Next ==
    \/ InitializeSession
    \/ UpdateCameraPosition
    \/ AddDetectedPlane
    \/ PlaceVirtualObject
    \/ RemoveVirtualObject
    \/ GetSessionStats

Spec == Init /\ [][Next]_vars

\* ------------------------------------------------------------ lock poisoning
\* remove_virtual_object when println! panics (standard output is closed): the
\* object has been removed, the unwinding drops the MutexGuard, which poisons
\* the mutex, and the call returns nothing.
RemoveVirtualObjectPanics ==
    \E h \in Handles :
        LET res == remove_virtual_object(AR_SESSION, h) IN
        /\ res.ret
        /\ AR_SESSION' = [res.session EXCEPT !.poisoned = TRUE]
        /\ lastCall' = Call("remove_virtual_object panicked", [object_id |-> h], Unit)
        /\ smokeStep' = -1
        /\ removedSince' = TRUE
        /\ UNCHANGED lastHandle
        /\ UNCHANGED tvars

\* The entry points called one at a time by a host that goes on calling after
\* a call has panicked.
NextPanic ==
    \/ Next
    \/ RemoveVirtualObjectPanics

SpecPanic == Init /\ [][NextPanic]_vars

\* ------------------------------------------------------------ host threads
\* The entry points are extern "C" and the host may call them from any of its
\* threads.  Each thread makes one call.

\* The call each thread makes.
ThreadCalls ==
    { [op |-> "initialize_ar_session", args |-> Unit],
      [op |-> "update_camera_position", args |-> [x |-> 1, y |-> 2, z |-> 3]],
      [op |-> "add_detected_plane",
       args |-> [id_ptr |-> NullPtr, center |-> <<0, 0, -1>>,
                 extent |-> <<1, 1>>, normal |-> <<0, 1, 0>>]],
      [op |-> "place_virtual_object",
       args |-> [object_type |-> 0, position |-> <<0, 5, -1>>,
                 rotation |-> <<0, 0, 0, 1>>]],
      [op |-> "remove_virtual_object", args |-> [object_id |-> 0]],
      [op |-> "get_session_stats",
       args |-> [num_planes |-> Slot(-1), num_objects |-> Slot(-1)]] }

\* The entry point c.op run on A with c.args: AR_SESSION after the call and
\* the value returned.
Apply(A, c) ==
    CASE c.op = "initialize_ar_session" ->
            [session |-> initialize_ar_session, ret |-> Unit]
      [] c.op = "update_camera_position" ->
            [session |-> update_camera_position(A, c.args.x, c.args.y, c.args.z),
             ret |-> Unit]
      [] c.op = "add_detected_plane" ->
            [session |-> add_detected_plane(A, c.args.id_ptr, c.args.center,
                                            c.args.extent, c.args.normal),
             ret |-> Unit]
      [] c.op = "place_virtual_object" ->
            LET res == place_virtual_object(A, c.args.object_type,
                                            c.args.position, c.args.rotation)
            IN [session |-> res.session, ret |-> [handle |-> res.ret]]
      [] c.op = "remove_virtual_object" ->
            LET res == remove_virtual_object(A, c.args.object_id)
            IN [session |-> res.session, ret |-> [removed |-> res.ret]]
      [] c.op = "get_session_stats" ->
            [session |-> A,
             ret |-> get_session_stats(A, c.args.num_planes, c.args.num_objects)]

\* The session after main's calls up to place_virtual_object, and an object more.
Populated ==
    LET a == Apply(initialize_ar_session, SmokeScript[2]).session
        b == Apply(a, SmokeScript[3]).session
    IN Apply(b, SmokeScript[3]).session

\* AR_SESSION when the threads make their calls.
StartSessions == { None, initialize_ar_session, Populated }

\* detected_planes.len() and virtual_objects.len() of the session A holds.
Counts(A) == <<Len(Planes(A)), Len(Objects(A))>>

\* A thread's call has not returned yet.
Pending == [pending |-> TRUE]

ThreadsInit ==
    /\ start \in StartSessions
    /\ AR_SESSION = start
    /\ call \in [Threads -> ThreadCalls]
    /\ pc = [t \in Threads |-> "call"]
    /\ result = [t \in Threads |-> Pending]
    /\ guard = [t \in Threads |-> NoGuard]
    /\ crashed = FALSE
    /\ existed = [t \in Threads |->
                    IF call[t].op = "get_session_stats" THEN {Counts(start)} ELSE {}]
    /\ lastCall = NoCall
    /\ lastHandle = NoHandle
    /\ removedSince = FALSE
    /\ smokeStep = -1

\* existed once AR_SESSION holds A.
Exists(A) ==
    [t \in Threads |->
        IF pc[t] # "done" /\ call[t].op = "get_session_stats"
        THEN existed[t] \cup {Counts(A)}
        ELSE existed[t]]

\* initialize_ar_session on thread t.  AR_SESSION = Some(..) takes no lock: it
\* drops the Arc the static held, the only one there is (no entry point clones
\* it), which frees the Mutex and the ARSession in it under the MutexGuard of
\* a thread that is in its critical section.
InitializeSessionOn(t) ==
    /\ ~crashed
    /\ pc[t] = "call"
    /\ call[t].op = "initialize_ar_session"
    /\ AR_SESSION' = initialize_ar_session
    /\ guard' = [u \in Threads |->
                    IF guard[u].kind = "current"
                    THEN [kind |-> "freed", session |-> AR_SESSION]
                    ELSE guard[u]]
    /\ pc' = [pc EXCEPT ![t] = "done"]
    /\ result' = [result EXCEPT ![t] = Unit]
    /\ existed' = Exists(initialize_ar_session)
    /\ UNCHANGED <<call, crashed, start, svars>>

\* if let Some(session) = &AR_SESSION { if let Ok(lock) = session.lock() {
\* on thread t: without a session, or with a poisoned mutex, the call returns;
\* else it waits until no thread holds the mutex and takes it.
Acquire(t) ==
    /\ ~crashed
    /\ pc[t] = "call"
    /\ call[t].op # "initialize_ar_session"
    /\ IF Locked(AR_SESSION)
       THEN /\ \A u \in Threads : guard[u].kind # "current"
            /\ guard' = [guard EXCEPT ![t] = [kind |-> "current"]]
            /\ pc' = [pc EXCEPT ![t] = "cs"]
            /\ UNCHANGED <<result, existed>>
       ELSE /\ pc' = [pc EXCEPT ![t] = "done"]
            /\ result' = [result EXCEPT ![t] = Apply(AR_SESSION, call[t]).ret]
            /\ existed' = Exists(AR_SESSION)
            /\ UNCHANGED guard
    /\ UNCHANGED <<AR_SESSION, call, crashed, start, svars>>

\* The body of the entry point under the MutexGuard, the drop of the guard
\* and the return, on thread t.
Critical(t) ==
    /\ ~crashed
    /\ pc[t] = "cs"
    /\ guard[t].kind = "current"
    /\ AR_SESSION' = Apply(AR_SESSION, call[t]).session
    /\ result' = [result EXCEPT ![t] = Apply(AR_SESSION, call[t]).ret]
    /\ guard' = [guard EXCEPT ![t] = NoGuard]
    /\ pc' = [pc EXCEPT ![t] = "done"]
    /\ existed' = Exists(Apply(AR_SESSION, call[t]).session)
    /\ UNCHANGED <<call, crashed, start, svars>>

\* What len() of a Vec in freed memory may read.
FreedLens == 0 .. MaxObjects

\* What the body of c.op may return when the memory of its session, which
\* held A, has been freed: what it returns on A when the memory is as it was,
\* and what it makes of any lengths when the memory has been used again.
UseAfterFree(A, c) ==
    {Apply(A, c).ret} \cup
    CASE c.op = "place_virtual_object" -> {[handle |-> n] : n \in FreedLens}
      [] c.op = "remove_virtual_object" -> {[removed |-> b] : b \in BOOLEAN}
      [] c.op = "get_session_stats" ->
            {[num_planes |-> IF c.args.num_planes = NullSlot
                             THEN NullSlot ELSE Slot(p),
              num_objects |-> IF c.args.num_objects = NullSlot
                              THEN NullSlot ELSE Slot(o)] :
                p \in FreedLens, o \in FreedLens}
      [] OTHER -> {}

\* The body of the entry point on thread t under a MutexGuard whose mutex has
\* been freed: its writes are lost and it returns what the freed memory gives.
CriticalFreed(t) ==
    /\ ~crashed
    /\ pc[t] = "cs"
    /\ guard[t].kind = "freed"
    /\ \E r \in UseAfterFree(guard[t].session, call[t]) :
          result' = [result EXCEPT ![t] = r]
    /\ guard' = [guard EXCEPT ![t] = NoGuard]
    /\ pc' = [pc EXCEPT ![t] = "done"]
    /\ existed' = Exists(AR_SESSION)
    /\ UNCHANGED <<AR_SESSION, call, crashed, start, svars>>

\* The same, when the access to the freed memory kills the process (a Vec
\* whose buffer is freed twice, an unmapped page).
Abort(t) ==
    /\ ~crashed
    /\ pc[t] = "cs"
    /\ guard[t].kind = "freed"
    /\ crashed' = TRUE
    /\ UNCHANGED <<AR_SESSION, pc, call, result, guard, start, existed, svars>>

NextThreads ==
    \/ \E t \in Threads : InitializeSessionOn(t)
    \/ \E t \in Threads : Acquire(t)
    \/ \E t \in Threads : Critical(t)
    \/ \E t \in Threads : CriticalFreed(t)
    \/ \E t \in Threads : Abort(t)

SpecThreads == ThreadsInit /\ [][NextThreads]_vars

\* ------------------------------------------------------------------ claims
\* The step is a call of op.  (A step that changes nothing is a stuttering
\* step, which the action properties below allow.)
Did(op) == lastCall'.op = op

\* C1: remove_virtual_object(h) returns true and the object count drops by
\* exactly one iff there is a session and 0 <= h < object count at call time;
\* otherwise it returns false and the object sequence is unchanged.
C1_RemoveContract ==
    [][Did("remove_virtual_object") =>
        LET h == lastCall'.args.object_id
            inRange == /\ AR_SESSION.some
                       /\ 0 <= h
                       /\ h < Len(Objects(AR_SESSION))
        IN /\ lastCall'.ret.removed = inRange
           /\ AR_SESSION'.some = AR_SESSION.some
           /\ inRange => Len(Objects(AR_SESSION')) = Len(Objects(AR_SESSION)) - 1
           /\ ~inRange => Objects(AR_SESSION') = Objects(AR_SESSION)]_vars

\* A successful removal from two objects, leaving one.
C1_Witness ==
    /\ lastCall.op = "remove_virtual_object"
    /\ lastCall.ret.removed
    /\ lastCall.before.objects = 2
    /\ Len(Objects(AR_SESSION)) = 1

\* C2 as stated: every handle place_virtual_object returns on a session is
\* larger than the handle its previous call on that session returned (the
\* first being 0), and the call returns -1 when there is no session.
C2_HandlesIncrease ==
    [][Did("place_virtual_object") =>
        IF AR_SESSION.some
        THEN lastCall'.ret.handle > lastHandle
        ELSE lastCall'.ret.handle = NoHandle]_vars

\* C2 amended: the handle is the object count at call time -- 0 for the first
\* call on a session, one more than the previous handle when no removal
\* succeeded in between and not larger than it otherwise; -1 when there is no
\* session.
C2_HandleIsCount ==
    [][Did("place_virtual_object") =>
        IF AR_SESSION.some
        THEN /\ lastCall'.ret.handle = Len(Objects(AR_SESSION))
             /\ ~removedSince => lastCall'.ret.handle = lastHandle + 1
             /\ removedSince => lastCall'.ret.handle <= lastHandle
        ELSE lastCall'.ret.handle = NoHandle]_vars

\* The third placement in a row on a session returned handle 2.
C2_Witness ==
    /\ lastCall.op = "place_virtual_object"
    /\ lastCall.ret.handle = 2
    /\ ~removedSince
    /\ lastHandle = 2

\* C3: no two objects stored in the session have the same id.
C3_UniqueObjectIds ==
    \A i, j \in 1 .. Len(Objects(AR_SESSION)) :
        i # j => Objects(AR_SESSION)[i].id # Objects(AR_SESSION)[j].id

\* The text plane_<k> for a one-digit k, spelled out character by character.
PlaneName(k) == <<112, 108, 97, 110, 101, 95, 48 + k>>

C5_EmptyIdSynthesized ==
    [][(Did("add_detected_plane") /\ AR_SESSION.some
            /\ lastCall'.args.id_ptr = CStr(<<>>)) =>
        LET old == Planes(AR_SESSION)
            new == Planes(AR_SESSION')
        IN /\ Len(new) = Len(old) + 1
           /\ new[Len(new)].id = PlaneName(Len(old))
           /\ new[Len(new)].id # <<>>]_vars

\* C6: with no session, update_camera_position, add_detected_plane,
\* place_virtual_object and remove_virtual_object leave AR_SESSION None, the
\* placement returns -1 and the removal false; and get_session_stats called
\* right after initialize_ar_session reports 0 in every slot it is given.
C6_NoOpsBeforeInit ==
    [][/\ (~AR_SESSION.some /\ ~Did("initialize_ar_session")) =>
            /\ AR_SESSION' = None
            /\ Did("place_virtual_object") => lastCall'.ret.handle = -1
            /\ Did("remove_virtual_object") => lastCall'.ret.removed = FALSE
       /\ (lastCall.op = "initialize_ar_session" /\ Did("get_session_stats")) =>
            /\ ~lastCall'.args.num_planes.null => lastCall'.ret.num_planes = Slot(0)
            /\ ~lastCall'.args.num_objects.null => lastCall'.ret.num_objects = Slot(0)
      ]_vars

\* place_virtual_object was called with no session: -1, and still no session.
C6_Witness ==
    /\ ~AR_SESSION.some
    /\ lastCall.op = "place_virtual_object"
    /\ ~lastCall.before.some
    /\ lastCall.ret.handle = -1

\* C7: get_session_stats leaves both slots as they were when there is no
\* session; with a session it writes the plane count and the object count to
\* the slots that are not null and nothing to a null one.
C7_StatsSlots ==
    lastCall.op = "get_session_stats" =>
        LET a == lastCall.args
            r == lastCall.ret
        IN IF ~AR_SESSION.some
           THEN r.num_planes = a.num_planes /\ r.num_objects = a.num_objects
           ELSE /\ r.num_planes = IF a.num_planes.null THEN a.num_planes
                                  ELSE Slot(Len(Planes(AR_SESSION)))
                /\ r.num_objects = IF a.num_objects.null THEN a.num_objects
                                   ELSE Slot(Len(Objects(AR_SESSION)))

\* Both slots seeded with -1, no session: both still hold -1.
C7_Witness ==
    /\ ~AR_SESSION.some
    /\ lastCall.op = "get_session_stats"
    /\ lastCall.args.num_planes = Slot(-1)
    /\ lastCall.args.num_objects = Slot(-1)
    /\ lastCall.ret.num_planes = Slot(-1)
    /\ lastCall.ret.num_objects = Slot(-1)

\* C8: right after initialize_ar_session there is a session with camera
\* position (0,0,0), no planes and no objects, whatever was there before.
C8_InitResets ==
    lastCall.op = "initialize_ar_session" =>
        /\ AR_SESSION.some
        /\ AR_SESSION.data.camera_position = <<0, 0, 0>>
        /\ AR_SESSION.data.detected_planes = <<>>
        /\ AR_SESSION.data.virtual_objects = <<>>

\* A session holding planes and objects was re-initialized.
C8_Witness ==
    /\ lastCall.op = "initialize_ar_session"
    /\ lastCall.before.some
    /\ lastCall.before.planes = 2
    /\ lastCall.before.objects = 3
    /\ Planes(AR_SESSION) = <<>>
    /\ Objects(AR_SESSION) = <<>>

\* C9: AR_SESSION is None or a session whose initialized flag is set; only
\* initialize_ar_session takes it from None to a session, and no call takes it
\* back to None.
C9_ActiveForever ==
    [][/\ AR_SESSION.some => AR_SESSION'.some
       /\ (~AR_SESSION.some /\ AR_SESSION'.some) => Did("initialize_ar_session")
       /\ AR_SESSION'.some => AR_SESSION'.data.initialized]_vars

\* The session outlived the removal of its only object.
C9_Witness ==
    /\ AR_SESSION.some
    /\ lastCall.op = "remove_virtual_object"
    /\ lastCall.ret.removed
    /\ lastCall.before.some
    /\ Objects(AR_SESSION) = <<>>

\* C10: after a successful remove_virtual_object(k) the object that was at
\* index i > k is at index i - 1, unchanged, and the object at index i < k is
\* still at index i (Vec indices from 0, sequence indices from 1).
C10_RemoveShifts ==
    [][(Did("remove_virtual_object") /\ lastCall'.ret.removed) =>
        LET k == lastCall'.args.object_id
            old == Objects(AR_SESSION)
            new == Objects(AR_SESSION')
        IN /\ Len(new) = Len(old) - 1
           /\ \A i \in 0 .. (Len(old) - 1) :
                /\ i < k => new[i + 1] = old[i + 1]
                /\ i > k => new[i] = old[i + 1]]_vars

\* The middle one of three objects was removed.
C10_Witness ==
    /\ lastCall.op = "remove_virtual_object"
    /\ lastCall.ret.removed
    /\ lastCall.args.object_id = 1
    /\ lastCall.before.objects = 3
    /\ Len(Objects(AR_SESSION)) = 2

\* C12: after update_camera_position(x, y, z) on a session the stored camera
\* position is (x, y, z).
C12_CameraStored ==
    (lastCall.op = "update_camera_position" /\ lastCall.before.some) =>
        /\ AR_SESSION.some
        /\ AR_SESSION.data.camera_position =
               <<lastCall.args.x, lastCall.args.y, lastCall.args.z>>

\* (1, 2, 3) was stored over the initial (0, 0, 0).
C12_Witness ==
    /\ lastCall.op = "update_camera_position"
    /\ lastCall.before.some
    /\ lastCall.args = [x |-> 1, y |-> 2, z |-> 3]
    /\ AR_SESSION.data.camera_position = <<1, 2, 3>>

\* C13: a process that has made exactly the calls of SmokeScript got handle 0
\* from place_virtual_object, counts (1, 1) from the first get_session_stats,
\* true from remove_virtual_object(0) and counts (1, 0) from the second
\* get_session_stats.
C13_SmokeScenario ==
    /\ smokeStep = 3 => lastCall.ret.handle = 0
    /\ smokeStep = 4 => /\ lastCall.ret.num_planes = Slot(1)
                        /\ lastCall.ret.num_objects = Slot(1)
    /\ smokeStep = 5 => lastCall.ret.removed = TRUE
    /\ smokeStep = 6 => /\ lastCall.ret.num_planes = Slot(1)
                        /\ lastCall.ret.num_objects = Slot(0)

\* The whole script has run.
C13_Witness ==
    /\ smokeStep = 6
    /\ lastCall.op = "get_session_stats"
    /\ Len(Planes(AR_SESSION)) = 1
    /\ Len(Objects(AR_SESSION)) = 0

\* C15: between two initialize_ar_session calls the plane sequence changes only
\* by add_detected_plane appending one plane at its end; the planes already
\* stored keep their place and their record.
C15_PlanesAppendOnly ==
    [][(AR_SESSION.some /\ ~Did("initialize_ar_session")) =>
        LET old == Planes(AR_SESSION)
            new == Planes(AR_SESSION')
        IN \/ new = old
           \/ /\ Did("add_detected_plane")
              /\ Len(new) = Len(old) + 1
              /\ \A i \in 1 .. Len(old) : new[i] = old[i]]_vars

\* A plane was appended after another one, which is still the first.
C15_Witness ==
    /\ lastCall.op = "add_detected_plane"
    /\ lastCall.before.planes = 1
    /\ Len(Planes(AR_SESSION)) = 2
    /\ Planes(AR_SESSION)[1].id = <<97>>
    /\ Planes(AR_SESSION)[2].id = PlaneName(1)

\* C18: on a session, update_camera_position leaves planes and objects as they
\* are; add_detected_plane leaves camera position and objects as they are and
\* appends one plane; place_virtual_object and remove_virtual_object leave
\* camera position and planes as they are; get_session_stats leaves all of it.
C18_Frames ==
    [][AR_SESSION.some =>
        LET old == AR_SESSION.data
            new == AR_SESSION'.data
        IN /\ Did("update_camera_position") =>
                /\ new.detected_planes = old.detected_planes
                /\ new.virtual_objects = old.virtual_objects
           /\ Did("add_detected_plane") =>
                /\ new.camera_position = old.camera_position
                /\ new.virtual_objects = old.virtual_objects
                /\ Len(new.detected_planes) = Len(old.detected_planes) + 1
                /\ SubSeq(new.detected_planes, 1, Len(old.detected_planes))
                       = old.detected_planes
           /\ (Did("place_virtual_object") \/ Did("remove_virtual_object")) =>
                /\ new.camera_position = old.camera_position
                /\ new.detected_planes = old.detected_planes
           /\ Did("get_session_stats") => AR_SESSION' = AR_SESSION]_vars

\* An object was placed in a session with a moved camera and a plane.
C18_Witness ==
    /\ lastCall.op = "place_virtual_object"
    /\ lastCall.before.some
    /\ AR_SESSION.data.camera_position = <<1, 2, 3>>
    /\ Len(AR_SESSION.data.detected_planes) = 1
    /\ Len(AR_SESSION.data.virtual_objects) = 2

\* C16: while the mutex of the session is poisoned, update_camera_position,
\* add_detected_plane, place_virtual_object, remove_virtual_object and
\* get_session_stats return and leave the session as it is; the placement
\* returns -1, the removal false, and the slots keep what they held.
C16_PoisonedIsNoSession ==
    [][(/\ AR_SESSION.some
        /\ AR_SESSION.poisoned
        /\ ~Did("initialize_ar_session")) =>
        /\ AR_SESSION' = AR_SESSION
        /\ lastCall'.op \in {"update_camera_position", "add_detected_plane",
                             "place_virtual_object", "remove_virtual_object",
                             "get_session_stats"}
        /\ Did("place_virtual_object") => lastCall'.ret.handle = -1
        /\ Did("remove_virtual_object") => lastCall'.ret.removed = FALSE
        /\ Did("get_session_stats") =>
              /\ lastCall'.ret.num_planes = lastCall'.args.num_planes
              /\ lastCall'.ret.num_objects = lastCall'.args.num_objects]_vars

\* remove_virtual_object(0) returned false on a poisoned session that holds
\* two objects.
C16_Witness ==
    /\ AR_SESSION.some
    /\ AR_SESSION.poisoned
    /\ lastCall.op = "remove_virtual_object"
    /\ lastCall.args.object_id = 0
    /\ lastCall.ret.removed = FALSE
    /\ Len(Objects(AR_SESSION)) = 2

\* Every thread's call has returned.
AllReturned == \A t \in Threads : pc[t] = "done"

\* The orders in which the threads' calls can be made one after another.
Orders == {o \in [1 .. NumThreads -> Threads] : \A i, j \in 1 .. NumThreads : o[i] = o[j] => i = j}

\* AR_SESSION once the calls of threads o[i], o[i+1], .. have been made in
\* this order from A, one at a time, and what each returned.
RECURSIVE OneAtATime(_, _, _)
OneAtATime(A, o, i) ==
    IF i > NumThreads
    THEN [session |-> A, rets |-> [t \in {} |-> Unit]]
    ELSE LET r == Apply(A, call[o[i]])
             rest == OneAtATime(r.session, o, i + 1)
         IN [session |-> rest.session,
             rets |-> [t \in {o[i]} \cup DOMAIN rest.rets |->
                          IF t = o[i] THEN r.ret ELSE rest.rets[t]]]

\* C11: once the calls made from several threads have all returned, the
\* session and every value returned are those of the same calls made one at a
\* time in some order.
C11_Serialized ==
    AllReturned =>
        \E o \in Orders :
            /\ OneAtATime(start, o, 1).session = AR_SESSION
            /\ \A t \in Threads : OneAtATime(start, o, 1).rets[t] = result[t]

\* C14: at most one thread is in a critical section, and the session it is
\* in is the one AR_SESSION holds: initialize_ar_session does not replace the
\* session under a thread that holds its lock.
C14_MutualExclusion ==
    /\ Cardinality({t \in Threads : pc[t] = "cs"}) <= 1
    /\ \A t \in Threads : pc[t] = "cs" => guard[t].kind = "current"

\* C17: a call that has not returned can take a step or waits for a thread
\* that can: unless every call has returned, some thread can take a step.
C17_NoDeadlock == AllReturned \/ ENABLED NextThreads

\* C19: the two counts a get_session_stats call has written are the counts
\* of one session that AR_SESSION held during the call.
C19_ConsistentSnapshot ==
    \A t \in Threads :
        (/\ pc[t] = "done"
         /\ call[t].op = "get_session_stats"
         /\ result[t] # call[t].args) =>
            <<result[t].num_planes.val, result[t].num_objects.val>> \in existed[t]

====
